---- MODULE Spec2Model ----
(***************************************************************************)
(* Model of the room-scoped publish/subscribe fan-out of                   *)
(* luiz504/week-tech-go-server (package api, listed in                     *)
(* src/internal/mappers/message.go from line 27 on).                       *)
(*                                                                         *)
(*   handleSubscribeToRoom   : one task per subscription request           *)
(*   handleCreateRoomMessage : one task per message write request          *)
(*   notifyClients           : one goroutine per successful write          *)
(*   main                    : the process, which exits on os.Interrupt    *)
(*                                                                         *)
(* A connection (a websocket.Conn) is identified with the session that     *)
(* upgraded it, a cancel function with the session whose context it        *)
(* cancels, an event with the write that produced it.                      *)
(***************************************************************************)
EXTENDS Integers, Sequences, FiniteSets, TLC

\* ---------------------------------------------------------------- bounds
NumSessions == 2
NumWriters == 2

Sessions == 1..NumSessions
Writers == 1..NumWriters

\* ------------------------------------------------------ program constants
StatusCreated == 201
StatusBadRequest == 400
StatusNotFound == 404
StatusInternalServerError == 500
StatusSwitchingProtocols == 101

\* Values of the room_id URL parameter the requests carry.  "R1" is a second
\* spelling of the UUID "r1" (uuid.Parse accepts upper case, braces, urn:
\* forms; UUID.String() prints the canonical one).  "r9" is a well-formed
\* UUID of no room, "zz" is not a UUID.  Subscriptions go to both rooms of
\* the Store, messages are written to the first.
SubscribeRawIds == {"r1", "R1", "r2", "r9", "zz"}
WriteRawIds == {"r1", "R1", "r9", "zz"}

\* Rooms present in the Store (rooms are never deleted by this program).
StoreRooms == {"r1", "r2"}

\* What can go wrong in a write request before InsertMessage.
Faults == {"none", "store", "json"}

NoRoom == "-"
NoOwner == <<"free", 0>>

\* utils.ParseUUIDParam followed by roomId.String(): the canonical key, or
\* NoRoom when uuid.Parse returns an error.
ParseUUIDParam(raw) ==
    CASE raw = "r1" -> "r1"
      [] raw = "R1" -> "r1"
      [] raw = "r2" -> "r2"
      [] raw = "r9" -> "r9"
      [] OTHER -> NoRoom

VARIABLES
    subscribers,  \* h.subscribers: room key -> (connection -> cancel func)
    mu,           \* h.mu: the task holding the mutex, or NoOwner
    spc,          \* session s: position in handleSubscribeToRoom
    sroom,        \* session s: roomId.String(), NoRoom before parsing
    serr,         \* session s: what the last failing call returned
    sresp,        \* session s: HTTP status written to its client, 0 if none
    ctxDone,      \* session s: the context of line 138 is done
    broken,       \* connection s: the transport fails every write
    connClosed,   \* connection s: c.Close() ran
    unsubCount,   \* session s: executions of the locked delete (line 153)
    regAt,        \* session s, while in the map: the writes pending at its insert
    wpc,          \* write w: position in handleCreateRoomMessage
    wroom,        \* write w: roomId.String()
    werr,         \* write w: what the last failing call returned
    wresp,        \* write w: HTTP status written to the requester, 0 if none
    persisted,    \* writes whose InsertMessage succeeded
    bpc,          \* goroutine of write w: position in notifyClients
    issued,       \* the writes in the order of their go statements (line 307)
    atLock,       \* goroutine of write w, in the lock: h.subscribers as found
    target,       \* goroutine of write w: the room's connections as found
    sent,         \* every conn.WriteJSON call so far, in order, each with
                  \* the cancel funcs invoked after it
    halted        \* the process has exited

svars == <<spc, sroom, serr, sresp, ctxDone, broken, connClosed,
           unsubCount, regAt>>
wvars == <<wpc, wroom, werr, wresp, persisted>>
bvars == <<bpc, issued, atLock, target, sent>>
vars == <<subscribers, mu, svars, wvars, bvars, halted>>

\* ---------------------------------------------------------------- helpers
EmptyMap == [x \in {} |-> 0]

SessionTask(s) == <<"session", s>>
NotifyTask(w) == <<"notify", w>>

\* h.subscribers[room], the nil map when the key is absent.
RoomMap(subs, room) == IF room \in DOMAIN subs THEN subs[room] ELSE EmptyMap

Conns(subs, room) == DOMAIN RoomMap(subs, room)

\* Mutant of MapInsert: the connection is put under every room that has a
\* map, not only under its own.
MapInsertEveryRoom(subs, room, c, cancel) ==
    [k \in DOMAIN subs \cup {room} |->
        [x \in Conns(subs, k) \cup {c} |->
            IF x = c THEN cancel ELSE subs[k][x]]]

\* Mutant of MapInsert: the room's map is made anew at every insert.
MapInsertFreshMap(subs, room, c, cancel) ==
    [k \in DOMAIN subs \cup {room} |->
        IF k = room
        THEN [x \in {c} |-> cancel]
        ELSE subs[k]]

\* lines 141-144: make the room's map when absent, then store the cancel.
MapInsert(subs, room, c, cancel) ==
    [k \in DOMAIN subs \cup {room} |->
        IF k = room
        THEN [x \in Conns(subs, room) \cup {c} |->
                IF x = c THEN cancel ELSE subs[room][x]]
        ELSE subs[k]]

\* Mutant of MapDelete: the delete is lost.
MapDeleteNoop(subs, room, c) == subs

\* line 153: delete(h.subscribers[room], c); a no-op on an absent key.
MapDelete(subs, room, c) ==
    [k \in DOMAIN subs |->
        IF k = room
        THEN [x \in DOMAIN subs[k] \ {c} |-> subs[k][x]]
        ELSE subs[k]]

\* The connections to which the goroutine of write w has called WriteJSON.
Attempted(w) == {sent[i].conn : i \in {j \in DOMAIN sent : sent[j].ev = w}}

\* The process is alive: main has not returned.
Running == ~halted

\* The write w is committed and its broadcast has not taken the lock yet.
Pending(w) ==
    \/ bpc[w] = "lock"
    \/ bpc[w] = "none" /\ w \in persisted /\ wpc[w] # "returned"

\* ------------------------------------------------------------------- Init
Init ==
    /\ subscribers = EmptyMap
    /\ mu = NoOwner
    /\ spc = [s \in Sessions |-> "parse"]
    /\ sroom = [s \in Sessions |-> NoRoom]
    /\ serr = [s \in Sessions |-> "nil"]
    /\ sresp = [s \in Sessions |-> 0]
    /\ ctxDone = [s \in Sessions |-> FALSE]
    /\ broken = [s \in Sessions |-> FALSE]
    /\ connClosed = [s \in Sessions |-> FALSE]
    /\ unsubCount = [s \in Sessions |-> 0]
    /\ regAt = [s \in Sessions |-> {}]
    /\ wpc = [w \in Writers |-> "validate"]
    /\ wroom = [w \in Writers |-> NoRoom]
    /\ werr = [w \in Writers |-> "nil"]
    /\ wresp = [w \in Writers |-> 0]
    /\ persisted = {}
    /\ bpc = [w \in Writers |-> "none"]
    /\ issued = <<>>
    /\ atLock = [w \in Writers |-> EmptyMap]
    /\ target = [w \in Writers |-> {}]
    /\ sent = <<>>
    /\ halted = FALSE

\* Mutant of SubscribeParseUUID: a well-formed id goes to the handshake
\* without the room being looked up.
SubscribeParseUUIDThenUpgrade(s, raw) ==
    /\ Running
    /\ spc[s] = "parse"
    /\ IF ParseUUIDParam(raw) = NoRoom
       THEN /\ serr' = [serr EXCEPT ![s] = "parse"]
            /\ sresp' = [sresp EXCEPT ![s] = StatusBadRequest]
            /\ spc' = [spc EXCEPT ![s] = "returned"]
            /\ UNCHANGED sroom
       ELSE /\ sroom' = [sroom EXCEPT ![s] = ParseUUIDParam(raw)]
            /\ spc' = [spc EXCEPT ![s] = "upgrade"]
            /\ UNCHANGED <<serr, sresp>>
    /\ UNCHANGED <<subscribers, mu, ctxDone, broken, connClosed, unsubCount,
                   regAt, wvars, bvars, halted>>

\* -------------------------------------------------- handleSubscribeToRoom
\* lines 113-117
SubscribeParseUUID(s, raw) ==
    /\ Running
    /\ spc[s] = "parse"
    /\ IF ParseUUIDParam(raw) = NoRoom
       THEN /\ serr' = [serr EXCEPT ![s] = "parse"]
            /\ sresp' = [sresp EXCEPT ![s] = StatusBadRequest]
            /\ spc' = [spc EXCEPT ![s] = "returned"]
            /\ UNCHANGED sroom
       ELSE /\ sroom' = [sroom EXCEPT ![s] = ParseUUIDParam(raw)]
            /\ spc' = [spc EXCEPT ![s] = "getroom"]
            /\ UNCHANGED <<serr, sresp>>
    /\ UNCHANGED <<subscribers, mu, ctxDone, broken, connClosed, unsubCount,
                   regAt, wvars, bvars, halted>>

\* Mutant of SubscribeGetRoom: pgx.ErrNoRows is not treated as a failure.
SubscribeGetRoomIgnoreNoRows(s, storeFails) ==
    /\ Running
    /\ spc[s] = "getroom"
    /\ IF storeFails
       THEN /\ serr' = [serr EXCEPT ![s] = "store"]
            /\ sresp' = [sresp EXCEPT ![s] = StatusInternalServerError]
            /\ spc' = [spc EXCEPT ![s] = "returned"]
            /\ sroom' = [sroom EXCEPT ![s] = NoRoom]
       ELSE /\ spc' = [spc EXCEPT ![s] = "upgrade"]
            /\ UNCHANGED <<serr, sresp, sroom>>
    /\ UNCHANGED <<subscribers, mu, ctxDone, broken, connClosed, unsubCount,
                   regAt, wvars, bvars, halted>>

\* lines 119-127: the query fails (also when r.Context() is already
\* cancelled), finds no row, or finds the room.  A handler that returns
\* drops its locals.
SubscribeGetRoom(s, storeFails) ==
    /\ Running
    /\ spc[s] = "getroom"
    /\ IF storeFails
       THEN /\ serr' = [serr EXCEPT ![s] = "store"]
            /\ sresp' = [sresp EXCEPT ![s] = StatusInternalServerError]
            /\ spc' = [spc EXCEPT ![s] = "returned"]
            /\ sroom' = [sroom EXCEPT ![s] = NoRoom]
       ELSE IF sroom[s] \notin StoreRooms
       THEN /\ serr' = [serr EXCEPT ![s] = "norows"]
            /\ sresp' = [sresp EXCEPT ![s] = StatusNotFound]
            /\ spc' = [spc EXCEPT ![s] = "returned"]
            /\ sroom' = [sroom EXCEPT ![s] = NoRoom]
       ELSE /\ spc' = [spc EXCEPT ![s] = "upgrade"]
            /\ UNCHANGED <<serr, sresp, sroom>>
    /\ UNCHANGED <<subscribers, mu, ctxDone, broken, connClosed, unsubCount,
                   regAt, wvars, bvars, halted>>

\* Mutant of SubscribeUpgrade: c.Close() is called at line 136 instead of
\* being deferred to the return of the handler.
SubscribeUpgradeCloseAtOnce(s, upgradeFails) ==
    /\ Running
    /\ spc[s] = "upgrade"
    /\ IF upgradeFails
       THEN /\ serr' = [serr EXCEPT ![s] = "upgrade"]
            /\ sresp' = [sresp EXCEPT ![s] = StatusBadRequest]
            /\ spc' = [spc EXCEPT ![s] = "returned"]
            /\ sroom' = [sroom EXCEPT ![s] = NoRoom]
            /\ UNCHANGED <<connClosed, broken>>
       ELSE /\ sresp' = [sresp EXCEPT ![s] = StatusSwitchingProtocols]
            /\ spc' = [spc EXCEPT ![s] = "lock"]
            /\ connClosed' = [connClosed EXCEPT ![s] = TRUE]
            /\ broken' = [broken EXCEPT ![s] = TRUE]
            /\ UNCHANGED <<serr, sroom>>
    /\ UNCHANGED <<subscribers, mu, ctxDone, unsubCount, regAt, wvars, bvars,
                   halted>>

\* lines 129-138: the handshake, then defer c.Close() and WithCancel.
SubscribeUpgrade(s, upgradeFails) ==
    /\ Running
    /\ spc[s] = "upgrade"
    /\ IF upgradeFails
       THEN /\ serr' = [serr EXCEPT ![s] = "upgrade"]
            /\ sresp' = [sresp EXCEPT ![s] = StatusBadRequest]
            /\ spc' = [spc EXCEPT ![s] = "returned"]
            /\ sroom' = [sroom EXCEPT ![s] = NoRoom]
       ELSE /\ sresp' = [sresp EXCEPT ![s] = StatusSwitchingProtocols]
            /\ spc' = [spc EXCEPT ![s] = "lock"]
            /\ UNCHANGED <<serr, sroom>>
    /\ UNCHANGED <<subscribers, mu, ctxDone, broken, connClosed, unsubCount,
                   regAt, wvars, bvars, halted>>

\* Mutant of SubscribeInsert: the insert runs without the Lock of line 140.
SubscribeInsertNoLock(s) ==
    /\ Running
    /\ spc[s] = "lock"
    /\ subscribers' = MapInsert(subscribers, sroom[s], s, s)
    /\ regAt' = [regAt EXCEPT ![s] = {w \in Writers : Pending(w)}]
    /\ spc' = [spc EXCEPT ![s] = "unlock"]
    /\ UNCHANGED <<mu, sroom, serr, sresp, ctxDone, broken, connClosed,
                   unsubCount, wvars, bvars, halted>>

\* Mutant of SubscribeInsert: a new subscriber is sent an event whose
\* broadcast has already returned.
SubscribeInsertReplay(s) ==
    /\ Running
    /\ spc[s] = "lock"
    /\ mu = NoOwner
    /\ mu' = SessionTask(s)
    /\ subscribers' = MapInsert(subscribers, sroom[s], s, s)
    /\ regAt' = [regAt EXCEPT ![s] = {w \in Writers : Pending(w)}]
    /\ spc' = [spc EXCEPT ![s] = "unlock"]
    /\ LET old == {w \in Writers : bpc[w] = "done" /\ wroom[w] = sroom[s]}
       IN sent' = IF old = {} THEN sent
                  ELSE Append(sent, [ev |-> CHOOSE w \in old : TRUE, conn |-> s,
                                     ok |-> TRUE, cancel |-> {}])
    /\ UNCHANGED <<sroom, serr, sresp, ctxDone, broken, connClosed, unsubCount,
                   wvars, bpc, issued, atLock, target, halted>>

\* lines 140-144: Lock, then the insert under the lock.
SubscribeInsert(s) ==
    /\ Running
    /\ spc[s] = "lock"
    /\ mu = NoOwner
    /\ mu' = SessionTask(s)
    /\ subscribers' = MapInsert(subscribers, sroom[s], s, s)
    /\ regAt' = [regAt EXCEPT ![s] = {w \in Writers : Pending(w)}]
    /\ spc' = [spc EXCEPT ![s] = "unlock"]
    /\ UNCHANGED <<sroom, serr, sresp, ctxDone, broken, connClosed, unsubCount,
                   wvars, bvars, halted>>

\* Mutant of SubscribeUnlock: the handler returns after the insert, without
\* the wait and the delete.
SubscribeUnlockAndReturn(s) ==
    /\ Running
    /\ spc[s] = "unlock"
    /\ mu' = NoOwner
    /\ connClosed' = [connClosed EXCEPT ![s] = TRUE]
    /\ broken' = [broken EXCEPT ![s] = TRUE]
    /\ sroom' = [sroom EXCEPT ![s] = NoRoom]
    /\ spc' = [spc EXCEPT ![s] = "returned"]
    /\ UNCHANGED <<subscribers, serr, sresp, ctxDone, unsubCount, regAt,
                   wvars, bvars, halted>>

\* line 146, after which the session waits at line 149.
SubscribeUnlock(s) ==
    /\ Running
    /\ spc[s] = "unlock"
    /\ mu' = NoOwner
    /\ spc' = [spc EXCEPT ![s] = "wait"]
    /\ UNCHANGED <<subscribers, sroom, serr, sresp, ctxDone, broken, connClosed,
                   unsubCount, regAt, wvars, bvars, halted>>

\* Mutant of UnsubscribeDelete: the wait of line 149 also ends on a timeout,
\* so the delete runs without the context being done.
UnsubscribeDeleteOnTimeout(s) ==
    /\ Running
    /\ spc[s] = "wait"
    /\ mu = NoOwner
    /\ mu' = SessionTask(s)
    /\ subscribers' = MapDelete(subscribers, sroom[s], s)
    /\ unsubCount' = [unsubCount EXCEPT ![s] = @ + 1]
    /\ regAt' = [regAt EXCEPT ![s] = {}]
    /\ spc' = [spc EXCEPT ![s] = "reunlock"]
    /\ UNCHANGED <<sroom, serr, sresp, ctxDone, broken, connClosed,
                   wvars, bvars, halted>>

\* lines 149-153: <-ctx.Done() returns, Lock, then the delete under the lock.
UnsubscribeDelete(s) ==
    /\ Running
    /\ spc[s] = "wait"
    /\ ctxDone[s]
    /\ mu = NoOwner
    /\ mu' = SessionTask(s)
    /\ subscribers' = MapDelete(subscribers, sroom[s], s)
    /\ unsubCount' = [unsubCount EXCEPT ![s] = @ + 1]
    /\ regAt' = [regAt EXCEPT ![s] = {}]
    /\ spc' = [spc EXCEPT ![s] = "reunlock"]
    /\ UNCHANGED <<sroom, serr, sresp, ctxDone, broken, connClosed,
                   wvars, bvars, halted>>

\* lines 155-156 and the deferred c.Close() of line 136: Unlock, then the
\* handler returns and the connection is closed.
UnsubscribeUnlock(s) ==
    /\ Running
    /\ spc[s] = "reunlock"
    /\ mu' = NoOwner
    /\ connClosed' = [connClosed EXCEPT ![s] = TRUE]
    /\ broken' = [broken EXCEPT ![s] = TRUE]
    /\ sroom' = [sroom EXCEPT ![s] = NoRoom]
    /\ spc' = [spc EXCEPT ![s] = "returned"]
    /\ UNCHANGED <<subscribers, serr, sresp, ctxDone, unsubCount, regAt,
                   wvars, bvars, halted>>

\* ------------------------------------------------------------ environment
\* The inbound request's context is cancelled (the transport layer's own
\* disconnect signal), which cancels the derived context of line 138.  The
\* session reads it at line 149 only, so a cancellation that comes earlier
\* is the one that comes as the session starts to wait.
RequestCancelled(s) ==
    /\ Running
    /\ spc[s] = "wait"
    /\ ~ctxDone[s]
    /\ ctxDone' = [ctxDone EXCEPT ![s] = TRUE]
    /\ UNCHANGED <<subscribers, mu, spc, sroom, serr, sresp, broken,
                   connClosed, unsubCount, regAt, wvars, bvars, halted>>

\* The peer goes away or the transport breaks: every later WriteJSON on the
\* connection returns an error.  Only notifyClients writes, and only to the
\* connections in the map.
ConnBreaks(s) ==
    /\ Running
    /\ spc[s] \in {"unlock", "wait"}
    /\ ~broken[s]
    /\ broken' = [broken EXCEPT ![s] = TRUE]
    /\ UNCHANGED <<subscribers, mu, spc, sroom, serr, sresp, ctxDone,
                   connClosed, unsubCount, regAt, wvars, bvars, halted>>

\* ------------------------------------------------ handleCreateRoomMessage
\* lines 258-281: the room id is parsed, the room looked up, the body decoded.
CreateMessageValidate(w, raw, fault) ==
    /\ Running
    /\ wpc[w] = "validate"
    /\ IF ParseUUIDParam(raw) = NoRoom
       THEN /\ werr' = [werr EXCEPT ![w] = "parse"]
            /\ wresp' = [wresp EXCEPT ![w] = StatusBadRequest]
            /\ wpc' = [wpc EXCEPT ![w] = "returned"]
            /\ UNCHANGED wroom
       ELSE IF fault = "store"
       THEN /\ werr' = [werr EXCEPT ![w] = "store"]
            /\ wresp' = [wresp EXCEPT ![w] = StatusInternalServerError]
            /\ wpc' = [wpc EXCEPT ![w] = "returned"]
            /\ UNCHANGED wroom
       ELSE IF ParseUUIDParam(raw) \notin StoreRooms
       THEN /\ werr' = [werr EXCEPT ![w] = "norows"]
            /\ wresp' = [wresp EXCEPT ![w] = StatusNotFound]
            /\ wpc' = [wpc EXCEPT ![w] = "returned"]
            /\ UNCHANGED wroom
       ELSE IF fault = "json"
       THEN /\ werr' = [werr EXCEPT ![w] = "json"]
            /\ wresp' = [wresp EXCEPT ![w] = StatusBadRequest]
            /\ wpc' = [wpc EXCEPT ![w] = "returned"]
            /\ UNCHANGED wroom
       ELSE /\ wroom' = [wroom EXCEPT ![w] = ParseUUIDParam(raw)]
            /\ wpc' = [wpc EXCEPT ![w] = "insert"]
            /\ UNCHANGED <<werr, wresp>>
    /\ UNCHANGED <<subscribers, mu, svars, persisted, bvars, halted>>

\* lines 283-287: InsertMessage
CreateMessageInsert(w, insertFails) ==
    /\ Running
    /\ wpc[w] = "insert"
    /\ IF insertFails
       THEN /\ werr' = [werr EXCEPT ![w] = "insert"]
            /\ wresp' = [wresp EXCEPT ![w] = StatusInternalServerError]
            /\ wpc' = [wpc EXCEPT ![w] = "returned"]
            /\ wroom' = [wroom EXCEPT ![w] = NoRoom]
            /\ UNCHANGED persisted
       ELSE /\ persisted' = persisted \cup {w}
            /\ wpc' = [wpc EXCEPT ![w] = "respond"]
            /\ UNCHANGED <<werr, wresp, wroom>>
    /\ UNCHANGED <<subscribers, mu, svars, bvars, halted>>

\* lines 289-305: the response is marshalled and written; a failed w.Write
\* returns from the handler (nothing has reached the requester).
CreateMessageRespond(w, writeFails) ==
    /\ Running
    /\ wpc[w] = "respond"
    /\ IF writeFails
       THEN /\ werr' = [werr EXCEPT ![w] = "write"]
            /\ wpc' = [wpc EXCEPT ![w] = "returned"]
            /\ wroom' = [wroom EXCEPT ![w] = NoRoom]
            /\ UNCHANGED wresp
       ELSE /\ wresp' = [wresp EXCEPT ![w] = StatusCreated]
            /\ wpc' = [wpc EXCEPT ![w] = "spawn"]
            /\ UNCHANGED <<werr, wroom>>
    /\ UNCHANGED <<subscribers, mu, svars, persisted, bvars, halted>>

\* Mutant of CreateMessageSpawn: notifyClients is called without "go", so
\* the handler takes the registry lock itself.
CreateMessageSpawnSync(w) ==
    /\ Running
    /\ wpc[w] = "spawn"
    /\ mu = NoOwner
    /\ mu' = NotifyTask(w)
    /\ issued' = Append(issued, w)
    /\ atLock' = [atLock EXCEPT ![w] = subscribers]
    /\ target' = [target EXCEPT ![w] = Conns(subscribers, wroom[w])]
    /\ bpc' = [bpc EXCEPT ![w] =
                IF Conns(subscribers, wroom[w]) = {} THEN "ret" ELSE "loop"]
    /\ wpc' = [wpc EXCEPT ![w] = "returned"]
    /\ UNCHANGED <<subscribers, svars, wroom, werr, wresp, persisted, sent,
                   halted>>

\* lines 307-314: go h.notifyClients(...), then the handler returns.
CreateMessageSpawn(w) ==
    /\ Running
    /\ wpc[w] = "spawn"
    /\ bpc' = [bpc EXCEPT ![w] = "lock"]
    /\ issued' = Append(issued, w)
    /\ wpc' = [wpc EXCEPT ![w] = "returned"]
    /\ UNCHANGED <<subscribers, mu, svars, wroom, werr, wresp, persisted,
                   atLock, target, sent, halted>>

\* ----------------------------------------------------------- notifyClients
\* Mutant of NotifyLock: the broadcast does not wait for the mutex.
NotifyLockNoMutex(w) ==
    /\ Running
    /\ bpc[w] = "lock"
    /\ mu' = NotifyTask(w)
    /\ atLock' = [atLock EXCEPT ![w] = subscribers]
    /\ target' = [target EXCEPT ![w] = Conns(subscribers, wroom[w])]
    /\ bpc' = [bpc EXCEPT ![w] =
                IF Conns(subscribers, wroom[w]) = {} THEN "ret" ELSE "loop"]
    /\ UNCHANGED <<subscribers, svars, wvars, issued, sent, halted>>

\* Mutant of NotifyLock: the lookup of line 176 creates the map of a room
\* that has none.
NotifyLockCreatesMap(w) ==
    /\ Running
    /\ bpc[w] = "lock"
    /\ mu = NoOwner
    /\ mu' = NotifyTask(w)
    /\ subscribers' =
          IF wroom[w] \in DOMAIN subscribers THEN subscribers
          ELSE [r \in DOMAIN subscribers \cup {wroom[w]} |->
                   IF r = wroom[w] THEN EmptyMap ELSE subscribers[r]]
    /\ atLock' = [atLock EXCEPT ![w] = subscribers']
    /\ target' = [target EXCEPT ![w] = Conns(subscribers, wroom[w])]
    /\ bpc' = [bpc EXCEPT ![w] =
                IF Conns(subscribers, wroom[w]) = {} THEN "ret" ELSE "loop"]
    /\ UNCHANGED <<svars, wvars, issued, sent, halted>>

\* lines 173-179: Lock, defer Unlock, look the room's map up; return when it
\* is absent or empty.
NotifyLock(w) ==
    /\ Running
    /\ bpc[w] = "lock"
    /\ mu = NoOwner
    /\ mu' = NotifyTask(w)
    /\ atLock' = [atLock EXCEPT ![w] = subscribers]
    /\ target' = [target EXCEPT ![w] = Conns(subscribers, wroom[w])]
    /\ bpc' = [bpc EXCEPT ![w] =
                IF Conns(subscribers, wroom[w]) = {} THEN "ret" ELSE "loop"]
    /\ UNCHANGED <<subscribers, svars, wvars, issued, sent, halted>>

\* Mutant of NotifyWriteJSON: a failed send returns from notifyClients.
NotifyWriteJSONAbort(w, c) ==
    /\ Running
    /\ bpc[w] = "loop"
    /\ c \in Conns(subscribers, wroom[w]) \ Attempted(w)
    /\ LET cancel == subscribers[wroom[w]][c]
           ok == ~broken[c]
       IN /\ sent' = Append(sent, [ev |-> w, conn |-> c, ok |-> ok,
                                   cancel |-> IF ok THEN {} ELSE {cancel}])
          /\ ctxDone' = IF ok THEN ctxDone
                        ELSE [ctxDone EXCEPT ![cancel] = TRUE]
          /\ bpc' = [bpc EXCEPT ![w] =
                      IF ~ok \/ Conns(subscribers, wroom[w]) = Attempted(w) \cup {c}
                      THEN "ret" ELSE "loop"]
    /\ UNCHANGED <<subscribers, mu, spc, sroom, serr, sresp, broken,
                   connClosed, unsubCount, regAt, wvars, issued, atLock,
                   target, halted>>

\* Mutant of NotifyWriteJSON: the registry removes the entry of a failed
\* connection itself.
NotifyWriteJSONEvict(w, c) ==
    /\ Running
    /\ bpc[w] = "loop"
    /\ c \in Conns(subscribers, wroom[w]) \ Attempted(w)
    /\ LET cancel == subscribers[wroom[w]][c]
           ok == ~broken[c]
       IN /\ sent' = Append(sent, [ev |-> w, conn |-> c, ok |-> ok,
                                   cancel |-> IF ok THEN {} ELSE {cancel}])
          /\ ctxDone' = IF ok THEN ctxDone
                        ELSE [ctxDone EXCEPT ![cancel] = TRUE]
          /\ subscribers' = IF ok THEN subscribers
                            ELSE [k \in DOMAIN subscribers |->
                                    IF k = wroom[w]
                                    THEN [x \in DOMAIN subscribers[k] \ {c} |->
                                            subscribers[k][x]]
                                    ELSE subscribers[k]]
          /\ bpc' = [bpc EXCEPT ![w] =
                      IF Conns(subscribers', wroom[w]) \subseteq Attempted(w) \cup {c}
                      THEN "ret" ELSE "loop"]
    /\ UNCHANGED <<mu, spc, sroom, serr, sresp, broken, connClosed, unsubCount,
                   regAt, wvars, issued, atLock, target, halted>>

\* Mutant of NotifyWriteJSON: a failed write is logged and nothing else; the
\* cancel func is not called.
NotifyWriteJSONNoCancel(w, c) ==
    /\ Running
    /\ bpc[w] = "loop"
    /\ c \in Conns(subscribers, wroom[w]) \ Attempted(w)
    /\ sent' = Append(sent, [ev |-> w, conn |-> c, ok |-> ~broken[c],
                             cancel |-> {}])
    /\ bpc' = [bpc EXCEPT ![w] =
                IF Conns(subscribers, wroom[w]) = Attempted(w) \cup {c}
                THEN "ret" ELSE "loop"]
    /\ UNCHANGED <<subscribers, mu, svars, wvars, issued, atLock, target,
                   halted>>

\* Mutant of NotifyWriteJSON: the loop ranges over the connections of every
\* room instead of those of msg.RoomID.
NotifyWriteJSONAllRooms(w, c) ==
    /\ Running
    /\ bpc[w] = "loop"
    /\ LET all == UNION {DOMAIN subscribers[r] : r \in DOMAIN subscribers}
           room == CHOOSE r \in DOMAIN subscribers : c \in DOMAIN subscribers[r]
           ok == ~broken[c]
       IN /\ c \in all \ Attempted(w)
          /\ sent' = Append(sent, [ev |-> w, conn |-> c, ok |-> ok,
                                   cancel |-> IF ok THEN {}
                                              ELSE {subscribers[room][c]}])
          /\ ctxDone' = IF ok THEN ctxDone
                        ELSE [ctxDone EXCEPT ![subscribers[room][c]] = TRUE]
          /\ bpc' = [bpc EXCEPT ![w] =
                      IF all = Attempted(w) \cup {c} THEN "ret" ELSE "loop"]
    /\ UNCHANGED <<subscribers, mu, spc, sroom, serr, sresp, broken,
                   connClosed, unsubCount, regAt, wvars, issued, atLock,
                   target, halted>>

\* lines 181-187: one iteration of the range loop, in any order of the keys:
\* WriteJSON to conn c and, when it fails, the cancel stored with c.
NotifyWriteJSON(w, c) ==
    /\ Running
    /\ bpc[w] = "loop"
    /\ c \in Conns(subscribers, wroom[w]) \ Attempted(w)
    /\ LET cancel == subscribers[wroom[w]][c]
           ok == ~broken[c]
       IN /\ sent' = Append(sent, [ev |-> w, conn |-> c, ok |-> ok,
                                   cancel |-> IF ok THEN {} ELSE {cancel}])
          /\ ctxDone' = IF ok THEN ctxDone
                        ELSE [ctxDone EXCEPT ![cancel] = TRUE]
    /\ bpc' = [bpc EXCEPT ![w] =
                IF Conns(subscribers, wroom[w]) = Attempted(w) \cup {c}
                THEN "ret" ELSE "loop"]
    /\ UNCHANGED <<subscribers, mu, spc, sroom, serr, sresp, broken,
                   connClosed, unsubCount, regAt, wvars, issued, atLock,
                   target, halted>>

\* Mutant of NotifyUnlock: notifyClients returns without the Unlock.
NotifyReturnLocked(w) ==
    /\ Running
    /\ bpc[w] = "ret"
    /\ atLock' = [atLock EXCEPT ![w] = EmptyMap]
    /\ bpc' = [bpc EXCEPT ![w] = "done"]
    /\ UNCHANGED <<subscribers, mu, svars, wvars, issued, target, sent,
                   halted>>

\* line 174's deferred Unlock: notifyClients returns.
NotifyUnlock(w) ==
    /\ Running
    /\ bpc[w] = "ret"
    /\ mu' = NoOwner
    /\ atLock' = [atLock EXCEPT ![w] = EmptyMap]
    /\ bpc' = [bpc EXCEPT ![w] = "done"]
    /\ UNCHANGED <<subscribers, svars, wvars, issued, target, sent, halted>>

\* -------------------------------------------------------------------- main
\* src/cmd/wsrs/main.go lines 57-62: on os.Interrupt main logs and returns;
\* the process exits with every goroutine where it stands (there is no
\* http.Server.Shutdown and no cancellation of the sessions).
Shutdown ==
    /\ Running
    /\ halted' = TRUE
    /\ UNCHANGED <<subscribers, mu, svars, wvars, bvars>>

\* -------------------------------------------------------- specification
\* The server while the process runs.
Next ==
    \/ \E s \in Sessions, raw \in SubscribeRawIds : SubscribeParseUUID(s, raw)
    \/ \E s \in Sessions, f \in BOOLEAN : SubscribeGetRoom(s, f)
    \/ \E s \in Sessions, f \in BOOLEAN : SubscribeUpgrade(s, f)
    \/ \E s \in Sessions : SubscribeInsert(s)
    \/ \E s \in Sessions : SubscribeUnlock(s)
    \/ \E s \in Sessions : UnsubscribeDelete(s)
    \/ \E s \in Sessions : UnsubscribeUnlock(s)
    \/ \E s \in Sessions : RequestCancelled(s)
    \/ \E s \in Sessions : ConnBreaks(s)
    \/ \E w \in Writers, raw \in WriteRawIds, f \in Faults :
            CreateMessageValidate(w, raw, f)
    \/ \E w \in Writers, f \in BOOLEAN : CreateMessageInsert(w, f)
    \/ \E w \in Writers, f \in BOOLEAN : CreateMessageRespond(w, f)
    \/ \E w \in Writers : CreateMessageSpawn(w)
    \/ \E w \in Writers : NotifyLock(w)
    \/ \E w \in Writers, c \in Sessions : NotifyWriteJSON(w, c)
    \/ \E w \in Writers : NotifyUnlock(w)

Spec == Init /\ [][Next]_vars

\* The server and the interrupt that ends the process.
NextMain ==
    \/ Next
    \/ Shutdown

SpecMain == Init /\ [][NextMain]_vars

\* The goroutines of the running server under the Go scheduler: a goroutine
\* that can take its next step takes it, and a goroutine blocked in Lock gets
\* the mutex once it stays free (sync.Mutex hands over to waiters).  Nothing
\* is assumed of the clients: requests, cancellations and transport failures
\* may or may not happen.
Fairness ==
    /\ \A s \in Sessions :
          /\ WF_vars(SubscribeInsert(s))
          /\ WF_vars(SubscribeUnlock(s))
          /\ WF_vars(UnsubscribeDelete(s))
          /\ WF_vars(UnsubscribeUnlock(s))
    /\ \A w \in Writers :
          /\ WF_vars(NotifyLock(w))
          /\ WF_vars(\E c \in Sessions : NotifyWriteJSON(w, c))
          /\ WF_vars(NotifyUnlock(w))

SpecFair == Init /\ [][Next]_vars /\ Fairness

\* ------------------------------------------------------------ properties
\* The session went through the insert of line 144.
EverRegistered(s) ==
    /\ sresp[s] = StatusSwitchingProtocols
    /\ spc[s] \in {"unlock", "wait", "reunlock", "returned"}

\* The rooms under which connection s is a key.
RoomsOf(s) == {r \in DOMAIN subscribers : s \in DOMAIN subscribers[r]}

\* The WriteJSON calls of the broadcast of write w, of the calls on conn s.
EntriesOf(w) == {i \in DOMAIN sent : sent[i].ev = w}
Deliveries(s) == {i \in DOMAIN sent : sent[i].conn = s}

\* How often the cancel func of session s was invoked by notifyClients.
CancelCalls(s) == Cardinality({i \in DOMAIN sent : s \in sent[i].cancel})

\* C1: a connection whose handleSubscribeToRoom has returned is a key of no
\* room's subscriber map.
C1_NoDanglingEntry ==
    \A s \in Sessions : spc[s] = "returned" => RoomsOf(s) = {}

\* A session that registered, was written to by a broadcast and returned.
C1_Witness ==
    \E s \in Sessions :
        /\ spc[s] = "returned"
        /\ unsubCount[s] = 1
        /\ Deliveries(s) # {}

\* C2 as stated: every session that registered has executed the delete of
\* line 153 exactly once when it is over, whether the handler returned or
\* the process was shut down.
C2_Original ==
    \A s \in Sessions :
        (EverRegistered(s) /\ (spc[s] = "returned" \/ halted))
            => unsubCount[s] = 1

\* C2 amended: the delete of line 153 is executed at most once per session,
\* not before the session's context is done, and exactly once by the time
\* the handler of a registered session returns, however often its cancel
\* func was invoked; a shutdown ends the process without it.
C2_UnsubscribeOnceOnReturn ==
    \A s \in Sessions :
        /\ unsubCount[s] <= 1
        /\ (EverRegistered(s) /\ spc[s] \in {"reunlock", "returned"})
              => unsubCount[s] = 1
        /\ spc[s] \notin {"reunlock", "returned"} => unsubCount[s] = 0
        /\ ~EverRegistered(s) => unsubCount[s] = 0

\* A session whose cancel func two broadcasts invoked has returned after one
\* delete.
C2_Witness ==
    \E s \in Sessions :
        /\ spc[s] = "returned"
        /\ unsubCount[s] = 1
        /\ CancelCalls(s) >= 2

\* C3: a broadcast that is through its loop has called WriteJSON exactly
\* once on every connection it found in the room, whether or not a send
\* failed before, and has invoked the cancel func of exactly the connections
\* whose send failed, once each.
C3_FailureDoesNotAbort ==
    \A w \in Writers :
        bpc[w] \in {"ret", "done"} =>
            /\ Attempted(w) = target[w]
            /\ Cardinality(EntriesOf(w)) = Cardinality(target[w])
            /\ \A i \in EntriesOf(w) :
                  sent[i].cancel = IF sent[i].ok THEN {} ELSE {sent[i].conn}

\* A broadcast whose first send failed and whose second send succeeded.
C3_Witness ==
    \E w \in Writers :
        /\ bpc[w] = "ret"
        /\ \E i, j \in EntriesOf(w) : i < j /\ ~sent[i].ok /\ sent[j].ok

\* C4 as stated: once the context of a session is done, no broadcast calls
\* WriteJSON on its connection any more.
C4_Original ==
    [][\A s \in Sessions : ctxDone[s] => Deliveries(s)' = Deliveries(s)]_vars

\* C4 amended: once a session has executed the delete of line 153, no
\* broadcast calls WriteJSON on its connection any more (between the
\* cancellation and the delete a broadcast that gets the lock first still
\* does).
C4_NoDeliveryAfterUnsubscribe ==
    [][\A s \in Sessions :
          unsubCount[s] > 0 => Deliveries(s)' = Deliveries(s)]_vars

\* A session that was written to has unsubscribed and returned, and a later
\* broadcast for its room is through its loop without a write to it.
C4_Witness ==
    \E s \in Sessions, w \in Writers :
        /\ spc[s] = "returned"
        /\ unsubCount[s] = 1
        /\ Deliveries(s) # {}
        /\ bpc[w] = "ret"
        /\ s \notin Attempted(w)

\* C5: a broadcast writes to exactly the connections that are in the room's
\* map while it holds the lock, whenever they registered, and to no
\* connection once it has returned (no replay to a later subscriber).
C5_DeliversToLockedSet ==
    \A w \in Writers :
        /\ bpc[w] \in {"none", "lock"} => Attempted(w) = {}
        /\ bpc[w] = "loop" => Attempted(w) \subseteq Conns(subscribers, wroom[w])
        /\ bpc[w] = "ret" => Attempted(w) = Conns(subscribers, wroom[w])
        /\ bpc[w] = "done" => Attempted(w) = target[w]

\* Session s registered between the commit of write w and its broadcast and
\* was written to; session t registered in the same room after the
\* broadcast and was not.
C5_Witness ==
    \E w \in Writers, s, t \in Sessions :
        /\ bpc[w] = "done"
        /\ w \in regAt[s]
        /\ s \in Attempted(w)
        /\ spc[t] = "wait"
        /\ sroom[t] = wroom[w]
        /\ t \notin Attempted(w)

\* The position of write w among the go statements executed so far.
Rank(w) == CHOOSE i \in DOMAIN issued : issued[i] = w

\* C6 as stated: a connection that receives two events receives them in the
\* order of the go statements that issued their broadcasts.
C6_Original ==
    \A i, j \in DOMAIN sent :
        (/\ i < j
         /\ sent[i].conn = sent[j].conn
         /\ sent[i].ev # sent[j].ev
         /\ sent[i].ok
         /\ sent[j].ok) => Rank(sent[i].ev) < Rank(sent[j].ev)

\* C6 amended: the broadcasts are serialized by the mutex: a broadcast
\* writes nothing before every broadcast that wrote earlier has returned, so
\* the writes of two broadcasts never interleave and every connection
\* receives two events in the order in which their broadcasts took the lock
\* (which need not be the order of the go statements).
C6_SerializedByLock ==
    \A i, j \in DOMAIN sent :
        (i < j /\ sent[i].ev # sent[j].ev) => bpc[sent[i].ev] = "done"

\* A connection has received two events.
C6_Witness ==
    \E i, j \in DOMAIN sent :
        /\ i < j
        /\ sent[i].conn = sent[j].conn
        /\ sent[i].ev # sent[j].ev
        /\ sent[i].ok
        /\ sent[j].ok

\* C7: while notifyClients runs, h.subscribers is what it found when it took
\* the lock, also after a failed send.
C7_BroadcastKeepsSubscribers ==
    \A w \in Writers : bpc[w] \in {"loop", "ret"} => subscribers = atLock[w]

\* A broadcast is through its loop and the connection whose send failed is
\* still in the room's map.
C7_Witness ==
    \E w \in Writers :
        /\ bpc[w] = "ret"
        /\ \E i \in EntriesOf(w) :
              /\ ~sent[i].ok
              /\ sent[i].conn \in Conns(subscribers, wroom[w])

\* C8: a subscription request that failed (malformed id, no such room, Store
\* error, failed handshake) has returned with its error status and was never
\* inserted; every key of the map is a session that passed all three checks,
\* under a room of the Store.
C8_FailedSubscribeNeverRegisters ==
    \A s \in Sessions :
        /\ serr[s] # "nil" =>
              /\ spc[s] = "returned"
              /\ RoomsOf(s) = {}
              /\ unsubCount[s] = 0
              /\ ~connClosed[s]
        /\ serr[s] = "norows" => sresp[s] = StatusNotFound
        /\ serr[s] = "store" => sresp[s] = StatusInternalServerError
        /\ serr[s] \in {"parse", "upgrade"} => sresp[s] = StatusBadRequest
        /\ (sroom[s] # NoRoom /\ sroom[s] \notin StoreRooms)
              => spc[s] = "getroom"
        /\ RoomsOf(s) # {} =>
              /\ RoomsOf(s) \subseteq StoreRooms
              /\ serr[s] = "nil"
              /\ sresp[s] = StatusSwitchingProtocols

\* A request for a room the Store does not have was answered 404 while
\* another session is registered.
C8_Witness ==
    \E s, t \in Sessions :
        /\ serr[s] = "norows"
        /\ sresp[s] = StatusNotFound
        /\ spc[t] = "wait"
        /\ RoomsOf(t) # {}

\* One step of handleCreateRoomMessage for write w.
WriterStep(w) ==
    \/ \E raw \in WriteRawIds, f \in Faults : CreateMessageValidate(w, raw, f)
    \/ \E f \in BOOLEAN : CreateMessageInsert(w, f)
    \/ \E f \in BOOLEAN : CreateMessageRespond(w, f)
    \/ CreateMessageSpawn(w)

\* C9: notifyClients for a write exists only after the 201 response was
\* written and the handler has returned, the response stays as written
\* whatever the broadcast does, and the handler can always take its next
\* step, whoever holds the mutex.
C9_ResponseBeforeBroadcast ==
    \A w \in Writers :
        /\ bpc[w] # "none" =>
              /\ wresp[w] = StatusCreated
              /\ wpc[w] = "returned"
        /\ wpc[w] # "returned" => ENABLED WriterStep(w)

\* The handler has returned with 201 while its broadcast waits for the mutex
\* that another task holds.
C9_Witness ==
    \E w \in Writers :
        /\ wpc[w] = "returned"
        /\ wresp[w] = StatusCreated
        /\ bpc[w] = "lock"
        /\ mu # NoOwner

\* C10 as stated: a write whose handler has returned has a broadcast if it
\* was persisted, and a write that was not persisted has none.
C10_PersistedWriteIsPublished ==
    \A w \in Writers :
        /\ (w \in persisted /\ wpc[w] = "returned") => bpc[w] # "none"
        /\ w \notin persisted => bpc[w] = "none"

\* C11: a broadcast calls WriteJSON at most once per connection, only on
\* connections subscribed to the room of its event, and when its loop is
\* over it has called it on every connection of that room.
C11_OncePerConnOfRoom ==
    \A w \in Writers :
        /\ Cardinality(EntriesOf(w)) = Cardinality(Attempted(w))
        /\ \A c \in Attempted(w) :
              spc[c] # "returned" => sroom[c] = wroom[w]
        /\ bpc[w] = "ret" =>
              /\ Attempted(w) = DOMAIN RoomMap(subscribers, wroom[w])
              /\ \A r \in DOMAIN subscribers \ {wroom[w]} :
                    DOMAIN subscribers[r] \cap Attempted(w) = {}

\* A broadcast is through its loop: it wrote to the subscriber of its room
\* and not to the subscriber of the other room.
C11_Witness ==
    \E w \in Writers, s, t \in Sessions :
        /\ bpc[w] = "ret"
        /\ s \in Attempted(w)
        /\ spc[t] = "wait"
        /\ sroom[t] # wroom[w]
        /\ t \notin Attempted(w)

\* C12: the entry of a registered session leaves the map only after the
\* session's context is done.  While the context is not done (no cancel()
\* call, no cancellation of the request context) the session is blocked in
\* the handler with its entry in the map of its room, whatever else runs.
C12_RegisteredUntilContextDone ==
    \A s \in Sessions :
        /\ (EverRegistered(s) /\ ~ctxDone[s]) =>
              /\ spc[s] \in {"unlock", "wait"}
              /\ RoomsOf(s) = {sroom[s]}
              /\ unsubCount[s] = 0
              /\ ~connClosed[s]
        /\ unsubCount[s] > 0 => ctxDone[s]
        /\ (spc[s] = "wait" /\ ~ctxDone[s]) => ~ENABLED UnsubscribeDelete(s)

\* A healthy session is still registered after both broadcasts delivered to
\* it and while the other session of the room has already unsubscribed.
C12_Witness ==
    \E s, t \in Sessions :
        /\ spc[s] = "wait"
        /\ ~ctxDone[s]
        /\ RoomsOf(s) = {sroom[s]}
        /\ Cardinality(Deliveries(s)) = NumWriters
        /\ \A w \in Writers : bpc[w] = "done"
        /\ unsubCount[t] = 1
        /\ spc[t] = "returned"

\* A WriteJSON of a broadcast on connection s returned an error.
FailedDelivery(s) == \E i \in Deliveries(s) : ~sent[i].ok

\* The step is a WriteJSON that succeeded.
SuccessfulWrite ==
    /\ Len(sent') = Len(sent) + 1
    /\ sent'[Len(sent')].ok

\* C13: with the goroutines scheduled fairly, a connection on which a
\* WriteJSON of a broadcast failed is eventually a key of no room's map and
\* its handler has returned and closed it; a WriteJSON that succeeds cancels
\* no context and removes no entry, so the connection it wrote to stays.
C13_FailedDeliveryIsEvicted ==
    /\ \A s \in Sessions :
          FailedDelivery(s) ~>
              (spc[s] = "returned" /\ connClosed[s] /\ RoomsOf(s) = {})
    /\ [][SuccessfulWrite =>
              (ctxDone' = ctxDone /\ subscribers' = subscribers)]_vars

\* Two connections of one room: the write of an event failed on one, which
\* is gone and closed, and succeeded on the other, which is still there.
C13_Witness ==
    \E s, t \in Sessions, w \in Writers :
        /\ \E i \in EntriesOf(w) : sent[i].conn = s /\ ~sent[i].ok
        /\ \E i \in EntriesOf(w) : sent[i].conn = t /\ sent[i].ok
        /\ spc[s] = "returned"
        /\ connClosed[s]
        /\ RoomsOf(s) = {}
        /\ spc[t] = "wait"
        /\ ~ctxDone[t]
        /\ RoomsOf(t) = {sroom[t]}

\* Session s is blocked in a Lock call of its handler.
WantsLock(s) == spc[s] = "lock" \/ (spc[s] = "wait" /\ ctxDone[s])

\* C14: with every WriteJSON returning, a started notifyClients ends with
\* the mutex released, also when it cancels sessions that need the mutex for
\* their delete; and every handler blocked in Lock gets the mutex: no task
\* waits for the lock forever.
C14_BroadcastTerminates ==
    /\ \A w \in Writers :
          (bpc[w] = "lock") ~> (bpc[w] = "done" /\ mu # NotifyTask(w))
    /\ \A s \in Sessions : WantsLock(s) ~> (mu = SessionTask(s))

\* A broadcast cancelled a session while holding the mutex, has returned and
\* released it, and the cancelled session holds the mutex after its delete.
C14_Witness ==
    \E w \in Writers, s \in Sessions :
        /\ bpc[w] = "done"
        /\ \E i \in EntriesOf(w) : s \in sent[i].cancel
        /\ spc[s] = "reunlock"
        /\ mu = SessionTask(s)
        /\ RoomsOf(s) = {}

\* The Store was asked whether the room of session s exists; the handshake
\* of session s was performed (it succeeded or it failed).
StoreAsked(s) ==
    \/ spc[s] \in {"upgrade", "lock", "unlock", "wait", "reunlock"}
    \/ serr[s] \in {"norows", "store", "upgrade"}
    \/ sresp[s] = StatusSwitchingProtocols
HandshakeDone(s) ==
    \/ sresp[s] = StatusSwitchingProtocols
    \/ serr[s] = "upgrade"

\* The state of session s, from the position of its handler.
Stage(s) ==
    CASE spc[s] \in {"parse", "getroom"} -> "Validating"
      [] spc[s] \in {"upgrade", "lock"} -> "Connecting"
      [] spc[s] \in {"unlock", "wait"} -> "Registered"
      [] spc[s] = "reunlock" -> "Terminating"
      [] OTHER -> "Closed"

StageOrder ==
    {<<"Validating", "Connecting">>, <<"Connecting", "Registered">>,
     <<"Registered", "Terminating">>, <<"Terminating", "Closed">>,
     <<"Validating", "Closed">>, <<"Connecting", "Closed">>}

C16_RemovedBeforeClosed ==
    \A s \in Sessions :
        /\ connClosed[s] => (RoomsOf(s) = {} /\ unsubCount[s] = 1)
        /\ RoomsOf(s) # {} => ~connClosed[s]
        /\ spc[s] = "reunlock" => (RoomsOf(s) = {} /\ ~connClosed[s])

\* A session has left its room and closed its connection while the other
\* subscriber of the room is still registered.
C16_Witness ==
    \E s, t \in Sessions :
        /\ connClosed[s]
        /\ unsubCount[s] = 1
        /\ spc[s] = "returned"
        /\ RoomsOf(t) # {}
        /\ \E w \in Writers : {s, t} \subseteq Attempted(w)

\* Broadcast w found no subscriber in the room of its event.
FoundNone(w) == bpc[w] \in {"ret", "done"} /\ target[w] = {}

\* C17: a notifyClients that finds no map for the room, or an empty one,
\* calls no WriteJSON and no cancel func, changes neither the map nor a
\* context, and goes straight to its return; the loop is entered only with
\* a subscriber to write to.
C17_EmptyRoomIsNoOp ==
    /\ [](\A w \in Writers :
            /\ FoundNone(w) => EntriesOf(w) = {}
            /\ (bpc[w] = "ret" /\ target[w] = {}) => subscribers = atLock[w]
            /\ bpc[w] = "loop" => target[w] # {})
    /\ [][\A w \in Writers :
            (bpc[w] = "lock" /\ FoundNone(w)') =>
                /\ Conns(subscribers, wroom[w]) = {}
                /\ subscribers' = subscribers
                /\ sent' = sent
                /\ ctxDone' = ctxDone
                /\ bpc'[w] = "ret"]_vars

\* One broadcast has returned having found no subscriber, another holds the
\* lock over a room whose map was emptied by an unsubscribe.
C17_Witness ==
    \E w, v \in Writers :
        /\ bpc[w] = "ret"
        /\ target[w] = {}
        /\ wroom[w] \in DOMAIN subscribers
        /\ subscribers[wroom[w]] = EmptyMap
        /\ \E s \in Sessions : unsubCount[s] = 1
        /\ bpc[v] = "done"
        /\ FoundNone(v)

\* C18: a connection is a key of at most one room's map.
C18_OneRoomPerConn ==
    \A s \in Sessions : Cardinality(RoomsOf(s)) <= 1

\* Both rooms have a map and a subscriber, each connection under one room.
C18_Witness ==
    \E s, t \in Sessions :
        /\ RoomsOf(s) = {"r1"}
        /\ RoomsOf(t) = {"r2"}
        /\ DOMAIN subscribers = {"r1", "r2"}

\* The tasks between a Lock and the Unlock that follows it.
InCriticalSection ==
    {SessionTask(s) : s \in {x \in Sessions : spc[x] \in {"unlock", "reunlock"}}}
        \cup {NotifyTask(w) : w \in {x \in Writers : bpc[x] \in {"loop", "ret"}}}

\* The tasks blocked in a Lock call.
InLockCall ==
    {SessionTask(s) : s \in {x \in Sessions : WantsLock(x)}}
        \cup {NotifyTask(w) : w \in {x \in Writers : bpc[x] = "lock"}}

\* C19: the task in a critical section is the owner of the mutex and there
\* is no other; a task calling Lock does not own the mutex; the map changes
\* only in a step of the task that owns the mutex after it, and WriteJSON,
\* a step of the iteration, is called only by the broadcast that owns it.
C19_MapOnlyUnderMutex ==
    /\ [](/\ InCriticalSection = (IF mu = NoOwner THEN {} ELSE {mu})
          /\ Cardinality(InCriticalSection) <= 1
          /\ mu \notin InLockCall)
    /\ [][/\ subscribers' # subscribers =>
                (mu = NoOwner /\ mu' \in {SessionTask(s) : s \in Sessions})
          /\ sent' # sent =>
                (mu' = mu /\ mu = NotifyTask(sent'[Len(sent')].ev))
          /\ \A w \in Writers : target'[w] # target[w] => mu' = NotifyTask(w)
         ]_vars

\* A broadcast iterates under the mutex while one handler is blocked in the
\* Lock before its insert and another in the Lock before its delete.
C19_Witness ==
    \E w \in Writers, s, t \in Sessions :
        /\ mu = NotifyTask(w)
        /\ bpc[w] = "ret"
        /\ Attempted(w) # {}
        /\ spc[s] = "lock"
        /\ spc[t] = "wait"
        /\ ctxDone[t]

\* The sessions that have run the insert of line 144 for room r and not yet
\* the delete of line 153.
SubscribedTo(r) == {s \in Sessions : spc[s] \in {"unlock", "wait"} /\ sroom[s] = r}

\* C20: the keys of a room's map are exactly the connections of the sessions
\* between their insert and their delete for that room, each with its own
\* cancel func; only rooms the Store has found have a map.  So a registered
\* session that has not been cancelled is in the map of its room whatever
\* the other sessions and the broadcasts do.
C20_MapIsRegisteredSessions ==
    /\ DOMAIN subscribers \subseteq StoreRooms
    /\ \A r \in StoreRooms : Conns(subscribers, r) = SubscribedTo(r)
    /\ \A r \in DOMAIN subscribers :
          \A c \in DOMAIN subscribers[r] : subscribers[r][c] = c
    /\ \A s \in Sessions :
          (spc[s] \in {"unlock", "wait"} /\ ~ctxDone[s]) =>
              (sroom[s] \in DOMAIN subscribers
                  /\ s \in DOMAIN subscribers[sroom[s]])

\* Two sessions share a room after a broadcast to both: one is healthy, the
\* other was cancelled by the broadcast and has not run its delete yet.
C20_Witness ==
    \E s, t \in Sessions, w \in Writers :
        /\ s # t
        /\ sroom[s] = sroom[t]
        /\ spc[s] = "wait"
        /\ spc[t] = "wait"
        /\ ~ctxDone[s]
        /\ \E i \in EntriesOf(w) : t \in sent[i].cancel
        /\ \E i \in EntriesOf(w) : sent[i].conn = s /\ sent[i].ok
        /\ bpc[w] = "done"
        /\ DOMAIN subscribers[sroom[s]] = {s, t}

====
